---------------------------- MODULE Spec2Model ----------------------------
(***************************************************************************)
(* A model of the nyc-bike-analysis batch pipeline:                        *)
(*   src/data/make_dataset.py      station registry + trip normalizer      *)
(*   src/data/enrich_trips.py      weather / day-night / weekend join      *)
(*   src/models/create_signatures.py  per-station hourly demand signatures *)
(*                                                                         *)
(* Encoding of values.  Every cell of a data frame is an integer.  A       *)
(* missing value (NaN, NaT, None) is the integer NaN; a raw CSV cell that  *)
(* does not parse (a non-numeric id, a malformed date) is Unparseable.     *)
(* Station names are modelled by their rank in alphabetical order, so that *)
(* sort_values('station_name') is the order of the integers.  Timestamps   *)
(* are seconds since 1970-01-01 00:00:00.                                  *)
(***************************************************************************)
EXTENDS Integers, Sequences, FiniteSets, TLC

VARIABLES
    \* make_dataset.py
    files,          \* csv_files with their content: <<[status, rows]>>
    pc,             \* position of the script
    i,              \* loop index of the running phase (enumerate(csv_files, 1))
    stations_list,  \* per-source deduplicated station frames
    stations_csv,   \* data/processed/stations.csv (df_stations)
    map_names, map_lat, map_lng,   \* the three lookup dictionaries
    interim,        \* data/interim/*.parquet: file index -> cleaned rows
    logs,           \* the statistics printed per file: file index -> numbers
    \* enrich_trips.py
    epc,            \* position of the script
    df_weather,     \* the hourly weather table: <<[time, temperature_c]>>
    df_sun,         \* the solar table: <<[date_key, sunrise, sunset]>>
    months,         \* the number of months found in data/interim
    month,          \* index of the month the loop is at
    df_clean,       \* the cleaned trips read for the month last processed
    df_month,       \* the enriched file written for the month last processed
    \* create_signatures.py
    spc,            \* position of generate_signatures
    df_all,         \* the trips loaded, with their hour
    signatures      \* data/processed/clustering/signatures_<day_week>.csv

datasetVars == <<files, pc, i, stations_list, stations_csv, map_names,
                 map_lat, map_lng, interim, logs>>
enrichVars == <<epc, df_weather, df_sun, months, month, df_clean, df_month>>
signatureVars == <<spc, df_all, signatures>>
vars == <<datasetVars, enrichVars, signatureVars>>

---------------------------------------------------------------------------
(* Bounds of the model *)
MaxFiles == 2
MaxRows == 3
MaxImputeRows == 2
MaxMonths == 1
MaxTrips == 2
MaxWeather == 2
YearDays == 1
MaxSignatureTrips == 3

---------------------------------------------------------------------------
(* Cells *)
NaN == -1
NaT == NaN
Unparseable == -2

\* pd.to_numeric(..., errors='coerce')
to_numeric(x) == IF x >= 0 THEN x ELSE NaN

\* pd.to_datetime(..., errors='coerce')
to_datetime(x) == IF x >= 0 THEN x ELSE NaT

\* Comparisons of pandas columns: any comparison with a missing value is False
Lt(a, b) == a # NaN /\ b # NaN /\ a < b
Gt(a, b) == a # NaN /\ b # NaN /\ a > b
\* Mutant: two missing values compare equal
Eq_missing_equal(a, b) == a = b
Eq(a, b) == a # NaN /\ b # NaN /\ a = b

SeqsUpTo(S, n) == UNION {[1..k -> S] : k \in 0..n}

Range(s) == {s[k] : k \in DOMAIN s}

---------------------------------------------------------------------------
(* PHASE 1: the station registry *)

Station(id, name, lat, lng) ==
    [station_id |-> id, station_name |-> name, lat |-> lat, lng |-> lng]

\* df_temp[cols_start].rename(...), df_temp[cols_end].rename(...)
start_stations(rows) ==
    {Station(r.start_station_id, r.start_station_name, r.start_lat, r.start_lng)
        : r \in Range(rows)}
end_stations(rows) ==
    {Station(r.end_station_id, r.end_station_name, r.end_lat, r.end_lng)
        : r \in Range(rows)}

\* pd.concat, to_numeric on the id, dropna(subset=['station_id'])
combined_stations(rows) ==
    LET all == start_stations(rows) \cup end_stations(rows)
        num == {[s EXCEPT !.station_id = to_numeric(@)] : s \in all}
    IN  {s \in num : s.station_id # NaN}

\* The order of sort_values('station_name'): missing names sort last
NameLe(a, b) == b = NaN \/ (a # NaN /\ a <= b)

\* The rows of one id that may come first after the sort: the sort is not
\* stable, so any row holding the least name may be the one kept.
FirstByName(obs, id) ==
    {o \in obs : /\ o.station_id = id
                 /\ \A p \in obs : p.station_id = id
                        => NameLe(o.station_name, p.station_name)}

\* sort_values('station_name').drop_duplicates(subset=['station_id'], keep='first'):
\* the frames it may produce, each a function id -> the row kept
drop_duplicates(obs) ==
    LET ids == {o.station_id : o \in obs}
    IN  {f \in [ids -> obs] : \A id \in ids : f[id] \in FirstByName(obs, id)}

RECURSIVE FirstNonNull(_)
FirstNonNull(s) ==
    IF s = <<>> THEN NaN
    ELSE IF Head(s) # NaN THEN Head(s) ELSE FirstNonNull(Tail(s))

\* The rows of one id in pd.concat(stations_list), in order
RECURSIVE GroupRows(_, _)
GroupRows(list, id) ==
    IF list = <<>> THEN <<>>
    ELSE (IF id \in DOMAIN Head(list) THEN <<Head(list)[id]>> ELSE <<>>)
            \o GroupRows(Tail(list), id)

Column(rows, col) == [k \in DOMAIN rows |-> rows[k][col]]

\* GroupBy.first(): per column, the first entry of the group that is not null
GroupFirst(rows, col) == FirstNonNull(Column(rows, col))

\* pd.concat(stations_list).groupby('station_id', as_index=False).first()
df_stations(list) ==
    LET ids == UNION {DOMAIN list[k] : k \in DOMAIN list}
    IN  [id \in ids |->
            LET g == GroupRows(list, id)
            IN  Station(id, GroupFirst(g, "station_name"),
                        GroupFirst(g, "lat"), GroupFirst(g, "lng"))]

---------------------------------------------------------------------------
(* PHASE 2: the trip normalizer *)

\* 1. type casting: timestamps and station ids
Cast(r) ==
    [r EXCEPT !.started_at = to_datetime(@), !.ended_at = to_datetime(@),
              !.start_station_id = to_numeric(@),
              !.end_station_id = to_numeric(@)]

\* 2. (ended_at - started_at).dt.total_seconds()
\* (the inputs hold no trip that ends one second before it starts, so a
\* duration is never mistaken for the missing value)
total_seconds(r) ==
    IF r.started_at = NaT \/ r.ended_at = NaT THEN NaN
    ELSE r.ended_at - r.started_at

WithDuration(r) ==
    [x \in DOMAIN r \cup {"trip_duration"} |->
        IF x = "trip_duration" THEN total_seconds(r) ELSE r[x]]

\* 3. dropna(subset=['started_at', 'ended_at']) keeps these rows
HasDates(r) == r.started_at # NaT /\ r.ended_at # NaT

\* Mutant: the window excludes its two ends
invalid_mask_exclusive(r) ==
    \/ r.trip_duration = NaN
    \/ r.trip_duration <= 180
    \/ r.trip_duration >= 10800
    \/ Eq(r.start_station_id, r.end_station_id)

invalid_mask(r) ==
    \/ Lt(r.trip_duration, 180)
    \/ Gt(r.trip_duration, 10800)
    \/ Eq(r.start_station_id, r.end_station_id)

\* Mutant: the registry's value replaces the value the row holds
fillna_overwrite(v, other) == IF other # NaN THEN other ELSE v

\* 4. Series.fillna(other): only a missing value is replaced
fillna(v, other) == IF v = NaN THEN other ELSE v

\* Series.map(dict): a key the dictionary does not hold maps to NaN
MapLookup(id, dict) == IF id \in DOMAIN dict THEN dict[id] ELSE NaN

Impute(r, names, lat, lng) ==
    [r EXCEPT
        !.start_station_name = fillna(@, MapLookup(r.start_station_id, names)),
        !.start_lat = fillna(@, MapLookup(r.start_station_id, lat)),
        !.start_lng = fillna(@, MapLookup(r.start_station_id, lng)),
        !.end_station_name = fillna(@, MapLookup(r.end_station_id, names)),
        !.end_lat = fillna(@, MapLookup(r.end_station_id, lat)),
        !.end_lng = fillna(@, MapLookup(r.end_station_id, lng))]

\* Mutant: only the start station id is required
HasIds_start_only(r) == r.start_station_id # NaN

\* dropna(subset=['start_station_id', 'end_station_id']) keeps these rows
HasIds(r) == r.start_station_id # NaN /\ r.end_station_id # NaN

\* The body of the PHASE 2 loop for one readable file: the frame saved and
\* the numbers printed
CleanFile(rows, names, lat, lng) ==
    LET initial_rows == Len(rows)
        typed == [k \in DOMAIN rows |-> WithDuration(Cast(rows[k]))]
        dated == SelectSeq(typed, HasDates)
        num_invalid == Len(SelectSeq(dated, invalid_mask))
        valid == SelectSeq(dated, LAMBDA r : ~invalid_mask(r))
        imputed == [k \in DOMAIN valid |-> Impute(valid[k], names, lat, lng)]
        rows_before_final_drop == Len(imputed)
        df == SelectSeq(imputed, HasIds)
        rows_no_id == rows_before_final_drop - Len(df)
        final_rows == Len(df)
    IN  [df |-> df,
         log |-> [initial_rows |-> initial_rows,
                  num_invalid |-> num_invalid,
                  rows_no_id |-> rows_no_id,
                  final_rows |-> final_rows,
                  dropped_rows |-> initial_rows - final_rows]]

---------------------------------------------------------------------------
(* The inputs *)

Trip(started, ended, sid, sname, slat, slng, eid, ename, elat, elng) ==
    [ride_id |-> 0, started_at |-> started, ended_at |-> ended,
     start_station_id |-> sid, start_station_name |-> sname,
     start_lat |-> slat, start_lng |-> slng,
     end_station_id |-> eid, end_station_name |-> ename,
     end_lat |-> elat, end_lng |-> elng]

\* ride ids are unique in a file: the position of the row
WithRideIds(rows) == [k \in DOMAIN rows |-> [rows[k] EXCEPT !.ride_id = k]]

File(status, rows) == [status |-> status, rows |-> WithRideIds(rows)]

\* Rows that differ in their dates and station ids: <<started_at, ended_at,
\* start_station_id, end_station_id>>
Timings ==
    {<<0, 179, 1, 2>>, <<0, 180, 1, 2>>, <<0, 10799, 1, 2>>,
     <<0, 10800, 1, 2>>, <<0, 10801, 1, 2>>,
     <<Unparseable, 400, 1, 2>>, <<0, NaN, 1, 2>>, <<Unparseable, 400, 1, 1>>,
     <<0, 10799, 1, 1>>, <<0, 179, 1, 1>>,
     <<0, 10799, NaN, 2>>, <<0, 10799, 1, Unparseable>>,
     <<0, 10799, NaN, NaN>>, <<0, 179, NaN, 2>>}
TimingRows ==
    {Trip(t[1], t[2], t[3], NaN, NaN, NaN, t[4], 1, 40, 74) : t \in Timings}

\* Rows that differ in the station attributes they hold
Attributes ==
    {<<1, 40, 74>>, <<2, 41, 75>>, <<NaN, NaN, NaN>>, <<1, NaN, 75>>,
     <<NaN, 41, NaN>>}
ImputeRows ==
    {Trip(0, 400, 1, a[1], a[2], a[3], 2, b[1], b[2], b[3])
        : a \in Attributes, b \in Attributes}

\* Rows that differ in the station observations they carry
Observations ==
    {<<1, 1, 40, 74>>, <<1, 2, 41, 75>>, <<1, NaN, 41, NaN>>,
     <<1, 1, NaN, 75>>, <<2, 1, 40, 74>>, <<Unparseable, 2, 41, 75>>}
StationRows ==
    {Trip(0, 400, a[1], a[2], a[3], a[4], b[1], b[2], b[3], b[4])
        : a \in Observations, b \in Observations}

\* Files that can or cannot be read
Statuses == {"ok", "unreadable", "no_ride_id"}
RunRows ==
    {Trip(0, 400, 1, 1, 40, 74, 2, 2, 41, 75),
     Trip(0, 100, 1, 1, 40, 74, 2, 2, 41, 75)}

InitFiles ==
    \/ files = <<>>
    \/ \E rows \in SeqsUpTo(TimingRows, MaxRows) : files = <<File("ok", rows)>>
    \/ \E rows \in SeqsUpTo(ImputeRows, MaxImputeRows) : files = <<File("ok", rows)>>
    \/ \E n \in 1..MaxFiles : \E rs \in [1..n -> StationRows] :
            files = [k \in 1..n |-> File("ok", <<rs[k]>>)]
    \/ \E n \in 1..MaxFiles : \E rs \in [1..n -> RunRows] :
       \E st \in [1..n -> Statuses] :
            files = [k \in 1..n |-> File(st[k], <<rs[k]>>)]

DatasetIdle ==
    /\ files = <<>>
    /\ pc = "idle"
    /\ i = 1
    /\ stations_list = <<>>
    /\ stations_csv = <<>>
    /\ map_names = <<>>
    /\ map_lat = <<>>
    /\ map_lng = <<>>
    /\ interim = <<>>
    /\ logs = <<>>

EnrichIdle ==
    /\ epc = "idle"
    /\ df_weather = <<>>
    /\ df_sun = <<>>
    /\ months = 0
    /\ month = 1
    /\ df_clean = <<>>
    /\ df_month = <<>>

SignatureIdle ==
    /\ spc = "idle"
    /\ df_all = <<>>
    /\ signatures = <<>>

Init ==
    /\ InitFiles
    /\ pc = "start"
    /\ i = 1
    /\ stations_list = <<>>
    /\ stations_csv = <<>>
    /\ map_names = <<>>
    /\ map_lat = <<>>
    /\ map_lng = <<>>
    /\ interim = <<>>
    /\ logs = <<>>
    /\ EnrichIdle
    /\ SignatureIdle

---------------------------------------------------------------------------
(* The script *)

\* if not csv_files: exit()
Start ==
    /\ pc = "start"
    /\ pc' = IF files = <<>> THEN "exited" ELSE "phase1"
    /\ UNCHANGED <<files, i, stations_list, stations_csv, map_names, map_lat,
                   map_lng, interim, logs>>
    /\ UNCHANGED <<enrichVars, signatureVars>>

\* One iteration of the PHASE 1 loop.  pd.read_csv raises on a file that
\* cannot be read, and nothing catches it.
ScanStations ==
    /\ pc = "phase1"
    /\ i <= Len(files)
    /\ IF files[i].status = "unreadable"
       THEN /\ pc' = "crashed"
            /\ UNCHANGED <<i, stations_list>>
       ELSE /\ \E f \in drop_duplicates(combined_stations(files[i].rows)) :
                    stations_list' = Append(stations_list, f)
            /\ i' = i + 1
            /\ pc' = pc
    /\ UNCHANGED <<files, stations_csv, map_names, map_lat, map_lng, interim,
                   logs>>
    /\ UNCHANGED <<enrichVars, signatureVars>>

\* Consolidating station data
Consolidate ==
    /\ pc = "phase1"
    /\ i > Len(files)
    /\ LET df == df_stations(stations_list)
       IN  /\ stations_csv' = df
           /\ map_names' = [id \in DOMAIN df |-> df[id].station_name]
           /\ map_lat' = [id \in DOMAIN df |-> df[id].lat]
           /\ map_lng' = [id \in DOMAIN df |-> df[id].lng]
    /\ pc' = "phase2"
    /\ i' = 1
    /\ UNCHANGED <<files, stations_list, interim, logs>>
    /\ UNCHANGED <<enrichVars, signatureVars>>

\* One iteration of the PHASE 2 loop.  pd.read_csv and df['ride_id'] raise
\* on a file that cannot be read or lacks the column; nothing catches it.
ProcessTrips ==
    /\ pc = "phase2"
    /\ i <= Len(files)
    /\ IF files[i].status # "ok"
       THEN /\ pc' = "crashed"
            /\ UNCHANGED <<i, interim, logs>>
       ELSE LET out == CleanFile(files[i].rows, map_names, map_lat, map_lng)
            IN  /\ interim' = interim @@ (i :> out.df)
                /\ logs' = logs @@ (i :> out.log)
                /\ i' = i + 1
                /\ pc' = pc
    /\ UNCHANGED <<files, stations_list, stations_csv, map_names, map_lat,
                   map_lng>>
    /\ UNCHANGED <<enrichVars, signatureVars>>

\* print("Process completed successfully")
Finish ==
    /\ pc = "phase2"
    /\ i > Len(files)
    /\ pc' = "done"
    /\ UNCHANGED <<files, i, stations_list, stations_csv, map_names, map_lat,
                   map_lng, interim, logs>>
    /\ UNCHANGED <<enrichVars, signatureVars>>

Next == Start \/ ScanStations \/ Consolidate \/ ProcessTrips \/ Finish

Spec == Init /\ [][Next]_vars

---------------------------------------------------------------------------
(* Properties of make_dataset.py *)

\* What a raw row is, read off the CSV cells themselves
RawParsed(raw) == raw.started_at >= 0 /\ raw.ended_at >= 0
RawDuration(raw) == raw.ended_at - raw.started_at
RawHasIds(raw) == raw.start_station_id >= 0 /\ raw.end_station_id >= 0
RawSameStation(raw) ==
    RawHasIds(raw) /\ raw.start_station_id = raw.end_station_id

Emitted(k, raw) == \E r \in Range(interim[k]) : r.ride_id = raw.ride_id

\* C1 (as amended): every emitted record has 180 <= trip_duration <= 10800,
\* both bounds inclusive: a row with parsed dates and distinct non-null
\* station ids is emitted exactly when its duration is in [180, 10800], so a
\* trip of exactly 180 s or 10800 s is accepted, like one of 10799 s, and
\* one of 179 s or 10801 s is rejected.
C1_DurationWindowInclusive ==
    \A k \in DOMAIN interim :
        /\ \A r \in Range(interim[k]) :
                r.trip_duration >= 180 /\ r.trip_duration <= 10800
        /\ \A raw \in Range(files[k].rows) :
                (RawParsed(raw) /\ RawHasIds(raw) /\ ~RawSameStation(raw))
                => (Emitted(k, raw) <=>
                        (RawDuration(raw) >= 180 /\ RawDuration(raw) <= 10800))

\* C1 witness: a file was cleaned in which a trip of exactly 10800 s and a
\* trip of exactly 180 s were both emitted.
C1_Witness ==
    \E k \in DOMAIN interim :
        /\ \E r \in Range(interim[k]) : r.trip_duration = 10800
        /\ \E r \in Range(interim[k]) : r.trip_duration = 180

\* C1 (as stated): every emitted record has 180 < trip_duration < 10800,
\* both bounds exclusive.
C1_DurationWindowExclusive ==
    \A k \in DOMAIN interim : \A r \in Range(interim[k]) :
        r.trip_duration > 180 /\ r.trip_duration < 10800

\* C2: every emitted record has non-null start and end station ids that
\* differ; a row whose station ids are equal is rejected whatever its
\* duration, and a row with a missing or non-numeric station id is never
\* emitted.
C2_StationIds ==
    \A k \in DOMAIN interim :
        /\ \A r \in Range(interim[k]) :
                /\ r.start_station_id # NaN
                /\ r.end_station_id # NaN
                /\ r.start_station_id # r.end_station_id
        /\ \A raw \in Range(files[k].rows) :
                (RawSameStation(raw) \/ ~RawHasIds(raw)) => ~Emitted(k, raw)

\* C2 witness: a file was cleaned that held a round trip of valid duration,
\* a trip of valid duration with a missing or non-numeric id, neither of
\* them emitted.
C2_Witness ==
    \E k \in DOMAIN interim :
        /\ \E raw \in Range(files[k].rows) :
                /\ RawSameStation(raw) /\ RawParsed(raw)
                /\ RawDuration(raw) = 10799
                /\ ~Emitted(k, raw)
        /\ \E raw \in Range(files[k].rows) :
                /\ ~RawHasIds(raw) /\ RawParsed(raw)
                /\ RawDuration(raw) = 10799
                /\ ~Emitted(k, raw)

\* The registry as the documented rule gives it: the names observed for a
\* station in one source, and the source that decides
RawObservations(k) ==
    start_stations(files[k].rows) \cup end_stations(files[k].rows)
RawNamesOf(k, id) ==
    {o.station_name : o \in {p \in RawObservations(k) : p.station_id = id}}
ObservedIds ==
    {id \in UNION {{o.station_id : o \in RawObservations(k)} : k \in DOMAIN files}
        : id >= 0}
LeastName(names) ==
    IF names \ {NaN} = {} THEN NaN
    ELSE CHOOSE n \in names \ {NaN} : \A m \in names \ {NaN} : n <= m
FirstSourceOf(id) ==
    CHOOSE k \in DOMAIN files :
        /\ RawNamesOf(k, id) # {}
        /\ \A j \in 1..(k - 1) : RawNamesOf(j, id) = {}

\* The names observed for a station in all sources
AllNamesOf(id) == UNION {RawNamesOf(k, id) : k \in DOMAIN files}

\* C3: the registry holds exactly one record per observed station id, and for
\* an id observed under several different names its name is the one of the
\* sort-and-first-wins rule: the first source, in enumeration order, that
\* observes the id decides, with its observation that sorts first by name.
C3_SortAndFirstWins ==
    pc \in {"phase2", "done"} =>
        /\ DOMAIN stations_csv = ObservedIds
        /\ \A id \in DOMAIN stations_csv :
                Cardinality(AllNamesOf(id) \ {NaN}) > 1 =>
                    stations_csv[id].station_name =
                        LeastName(RawNamesOf(FirstSourceOf(id), id))

FirstFrameOf(id) ==
    CHOOSE k \in DOMAIN stations_list :
        /\ id \in DOMAIN stations_list[k]
        /\ \A j \in 1..(k - 1) : id \notin DOMAIN stations_list[j]

\* C9: the registry's record of an id is the first whole record of that id in
\* accumulation order: name, lat and lng all come from that one record, nulls
\* included.
C9_FirstWholeRecord ==
    pc \in {"phase2", "done"} =>
        \A id \in DOMAIN stations_csv :
            stations_csv[id] = stations_list[FirstFrameOf(id)][id]

\* The value the registry holds for a station id (null for an unknown id)
RegistryValue(id, col) ==
    IF id \in DOMAIN stations_csv THEN stations_csv[id][col] ELSE NaN

StationAttributes ==
    {<<"start_station_id", "start_station_name", "station_name">>,
     <<"start_station_id", "start_lat", "lat">>,
     <<"start_station_id", "start_lng", "lng">>,
     <<"end_station_id", "end_station_name", "station_name">>,
     <<"end_station_id", "end_lat", "lat">>,
     <<"end_station_id", "end_lng", "lng">>}

\* C4: imputation is non-destructive and idempotent: in every emitted record
\* each of the six station attributes that the raw row holds is unchanged,
\* whatever the registry holds for that station; an attribute the raw row
\* lacks is the registry's value; no other field changes; and imputing the
\* record (or any row of the file) a second time changes nothing.
C4_ImputationNonDestructive ==
    \A k \in DOMAIN interim :
        /\ \A r \in Range(interim[k]) :
            \E raw \in Range(files[k].rows) :
                /\ raw.ride_id = r.ride_id
                /\ \A a \in StationAttributes :
                        r[a[2]] = IF raw[a[2]] # NaN THEN raw[a[2]]
                                  ELSE RegistryValue(r[a[1]], a[3])
                /\ r.started_at = raw.started_at /\ r.ended_at = raw.ended_at
                /\ r.start_station_id = raw.start_station_id
                /\ r.end_station_id = raw.end_station_id
                /\ Impute(r, map_names, map_lat, map_lng) = r
        /\ \A raw \in Range(files[k].rows) :
            LET once == Impute(Cast(raw), map_names, map_lat, map_lng)
            IN  Impute(once, map_names, map_lat, map_lng) = once

\* C4 witness: an emitted record kept a latitude that differs from the
\* registry's latitude of its station, and had its missing name filled;
\* another emitted record held all six attributes.
C4_Witness ==
    \E k \in DOMAIN interim :
        /\ \E r \in Range(interim[k]) : \E raw \in Range(files[k].rows) :
                /\ raw.ride_id = r.ride_id
                /\ raw.start_lat # NaN
                /\ RegistryValue(r.start_station_id, "lat") # NaN
                /\ RegistryValue(r.start_station_id, "lat") # raw.start_lat
                /\ raw.start_station_name = NaN
                /\ r.start_station_name # NaN
        /\ \E r \in Range(interim[k]) : \E raw \in Range(files[k].rows) :
                /\ raw.ride_id = r.ride_id
                /\ \A a \in StationAttributes : raw[a[2]] # NaN

\* C8: a source file that cannot be read fails only that file: when the run
\* has ended, the cleaned artifact of every readable file has been written.
C8_FailureIsolated ==
    pc \in {"done", "crashed", "exited"} =>
        \A k \in DOMAIN files : files[k].status = "ok" => k \in DOMAIN interim

\* The reason a row is rejected: the first step it fails
Reason(raw) ==
    IF ~RawParsed(raw) THEN "corrupted dates"
    ELSE IF \/ RawDuration(raw) < 180
            \/ RawDuration(raw) > 10800
            \/ RawSameStation(raw) THEN "invalid trips"
    ELSE IF ~RawHasIds(raw) THEN "irrecoverable ids"
    ELSE "saved"
Count(k, reason) ==
    Cardinality({n \in DOMAIN files[k].rows : Reason(files[k].rows[n]) = reason})

\* C10 (as amended): per file the log holds the initial count, the count of
\* invalid trips, the count of irrecoverable ids, the final count and the
\* total dropped; a rejected row is counted under the first step it fails;
\* the rows with corrupted dates are not reported on their own: they are the
\* rest, dropped - invalid trips - irrecoverable ids; and
\* initial = final + dropped.
C10_LogAccountsForRows ==
    \A k \in DOMAIN logs :
        /\ logs[k].initial_rows = Len(files[k].rows)
        /\ logs[k].num_invalid = Count(k, "invalid trips")
        /\ logs[k].rows_no_id = Count(k, "irrecoverable ids")
        /\ logs[k].final_rows = Count(k, "saved")
        /\ logs[k].final_rows = Len(interim[k])
        /\ logs[k].initial_rows = logs[k].final_rows + logs[k].dropped_rows
        /\ logs[k].dropped_rows - logs[k].num_invalid - logs[k].rows_no_id
                = Count(k, "corrupted dates")

\* C10 witness: a file was cleaned that lost a row to each of the three
\* reasons.
C10_Witness ==
    \E k \in DOMAIN logs :
        /\ logs[k].num_invalid > 0
        /\ logs[k].rows_no_id > 0
        /\ Count(k, "corrupted dates") > 0

\* C10 (as stated): the rejection counts the log reports, one per reason, and
\* the final count add up to the initial count.
C10_ReportedCountsAddUp ==
    \A k \in DOMAIN logs :
        logs[k].initial_rows =
            logs[k].num_invalid + logs[k].rows_no_id + logs[k].final_rows

---------------------------------------------------------------------------
(* enrich_trips.py *)

YearStart == 1

\* get_sun_cycles: one row per day of the year.  The sunrise and sunset of
\* the astronomical library are taken to be 06:00:00 and 18:00:00.
get_sun_cycles ==
    [k \in 1..YearDays |->
        LET date == YearStart + k - 1
        IN  [date_key |-> date,
             sunrise |-> date * 86400 + 6 * 3600,
             sunset |-> date * 86400 + 18 * 3600]]

\* Mutant: a tie goes up
round_half_up(t) == ((t + 1800) \div 3600) * 3600

\* Series.dt.round('h'): to the nearest hour, a tie to the even hour
round_h(t) ==
    LET q == t \div 3600
        r == t % 3600
    IN  IF 2 * r < 3600 THEN q * 3600
        ELSE IF 2 * r > 3600 THEN (q + 1) * 3600
        ELSE IF q % 2 = 0 THEN q * 3600 ELSE (q + 1) * 3600

\* Series.dt.date
dt_date(t) == t \div 86400

\* Series.dt.dayofweek: Monday is 0; 1970-01-01 was a Thursday
dayofweek(t) == (dt_date(t) + 3) % 7

RECURSIVE Flatten(_)
Flatten(ss) == IF ss = <<>> THEN <<>> ELSE Head(ss) \o Flatten(Tail(ss))

\* Mutant: an inner join, which drops the trips without a weather row
merge_weather_inner(left, weather) ==
    Flatten([k \in DOMAIN left |->
        LET l == left[k]
            hits == SelectSeq(weather, LAMBDA w : w.time = l.temp_time)
        IN  [n \in DOMAIN hits |->
                [ride_id |-> l.ride_id, started_at |-> l.started_at,
                 start_station_id |-> l.start_station_id,
                 temp_time |-> l.temp_time,
                 temperature_c |-> hits[n].temperature_c]]])

\* df_month.merge(df_weather, left_on='temp_time', right_index=True, how='left'):
\* one row per matching weather row, one row of nulls where none matches.
\* temperature_c stands for the five weather columns of the row.
merge_weather(left, weather) ==
    Flatten([k \in DOMAIN left |->
        LET l == left[k]
            hits == SelectSeq(weather, LAMBDA w : w.time = l.temp_time)
            Joined(t) ==
                [ride_id |-> l.ride_id, started_at |-> l.started_at,
                 start_station_id |-> l.start_station_id,
                 temp_time |-> l.temp_time, temperature_c |-> t]
        IN  IF hits = <<>> THEN <<Joined(NaN)>>
            ELSE [n \in DOMAIN hits |-> Joined(hits[n].temperature_c)]])

\* df_month.merge(df_sun, left_on='temp_date', right_on='date_key', how='left')
merge_sun(left, sun) ==
    Flatten([k \in DOMAIN left |->
        LET l == left[k]
            hits == SelectSeq(sun, LAMBDA d : d.date_key = l.temp_date)
            Joined(key, rise, set) ==
                [ride_id |-> l.ride_id, started_at |-> l.started_at,
                 start_station_id |-> l.start_station_id,
                 temp_time |-> l.temp_time, temperature_c |-> l.temperature_c,
                 temp_date |-> l.temp_date, date_key |-> key,
                 sunrise |-> rise, sunset |-> set]
        IN  IF hits = <<>> THEN <<Joined(NaN, NaT, NaT)>>
            ELSE [n \in DOMAIN hits |->
                    Joined(hits[n].date_key, hits[n].sunrise, hits[n].sunset)]])

\* (started_at >= sunrise) & (started_at <= sunset), .astype(int):
\* a comparison with NaT is False
is_day(r) ==
    IF /\ r.sunrise # NaT /\ r.started_at >= r.sunrise
       /\ r.sunset # NaT /\ r.started_at <= r.sunset
    THEN 1 ELSE 0

\* started_at.dt.dayofweek.isin([5, 6]).astype(int)
is_weekend(r) == IF dayofweek(r.started_at) \in {5, 6} THEN 1 ELSE 0

\* The body of the month loop: the frame written for the month
EnrichFrame(clean, weather, sun) ==
    LET dropped == [k \in DOMAIN clean |->
                        [ride_id |-> clean[k].ride_id,
                         started_at |-> clean[k].started_at,
                         start_station_id |-> clean[k].start_station_id]]
        timed == [k \in DOMAIN dropped |->
                    [ride_id |-> dropped[k].ride_id,
                     started_at |-> dropped[k].started_at,
                     start_station_id |-> dropped[k].start_station_id,
                     temp_time |-> round_h(dropped[k].started_at)]]
        withWeather == merge_weather(timed, weather)
        dated == [k \in DOMAIN withWeather |->
                    [x \in DOMAIN withWeather[k] \cup {"temp_date"} |->
                        IF x = "temp_date"
                        THEN dt_date(withWeather[k].started_at)
                        ELSE withWeather[k][x]]]
        withSun == merge_sun(dated, sun)
    IN  [k \in DOMAIN withSun |->
            [ride_id |-> withSun[k].ride_id,
             started_at |-> withSun[k].started_at,
             start_station_id |-> withSun[k].start_station_id,
             temperature_c |-> withSun[k].temperature_c,
             is_day |-> is_day(withSun[k]),
             is_weekend |-> is_weekend(withSun[k])]]

\* The weather rows the service may return: an hour and its temperature
WeatherRows ==
    {[time |-> 86400, temperature_c |-> 5],
     [time |-> 86400 + 14 * 3600, temperature_c |-> 14],
     [time |-> 86400 + 15 * 3600, temperature_c |-> 15],
     [time |-> 86400 + 16 * 3600, temperature_c |-> 16]}

\* The start times of the cleaned trips: 23:30:00 of the day before the
\* year; 14:29:59, 14:30:00, 14:30:01 and 15:30:00 of its first day
StartTimes ==
    {23 * 3600 + 1800,
     86400 + 14 * 3600 + 1799, 86400 + 14 * 3600 + 1800,
     86400 + 14 * 3600 + 1801, 86400 + 15 * 3600 + 1800}
CleanTrips ==
    {[ride_id |-> 0, started_at |-> t, start_station_id |-> 1,
      start_station_name |-> 1] : t \in StartTimes}

InitEnrich ==
    /\ DatasetIdle
    /\ SignatureIdle
    /\ epc = "start"
    /\ df_weather = <<>>
    /\ df_sun = <<>>
    /\ months \in 0..MaxMonths
    /\ month = 1
    /\ df_clean = <<>>
    /\ df_month = <<>>

\* get_nyc_weather_history and get_sun_cycles; a failure of either ends the
\* script
PrepareEnrichment ==
    /\ epc = "start"
    /\ \E failed \in BOOLEAN :
        IF failed
        THEN /\ epc' = "exited"
             /\ UNCHANGED <<df_weather, df_sun>>
        ELSE /\ \E w \in SeqsUpTo(WeatherRows, MaxWeather) : df_weather' = w
             /\ df_sun' = get_sun_cycles
             /\ epc' = "files"
    /\ UNCHANGED <<months, month, df_clean, df_month>>
    /\ UNCHANGED <<datasetVars, signatureVars>>

\* if not all_files: exit()
ListFiles ==
    /\ epc = "files"
    /\ epc' = IF months = 0 THEN "exited" ELSE "months"
    /\ UNCHANGED <<df_weather, df_sun, months, month, df_clean, df_month>>
    /\ UNCHANGED <<datasetVars, signatureVars>>

\* One iteration of the month loop, on the cleaned trips it reads
EnrichMonth ==
    /\ epc = "months"
    /\ month <= months
    /\ \E clean \in SeqsUpTo(CleanTrips, MaxTrips) :
        /\ df_clean' = WithRideIds(clean)
        /\ df_month' = EnrichFrame(WithRideIds(clean), df_weather, df_sun)
    /\ month' = month + 1
    /\ UNCHANGED <<epc, df_weather, df_sun, months>>
    /\ UNCHANGED <<datasetVars, signatureVars>>

EnrichDone ==
    /\ epc = "months"
    /\ month > months
    /\ epc' = "done"
    /\ UNCHANGED <<df_weather, df_sun, months, month, df_clean, df_month>>
    /\ UNCHANGED <<datasetVars, signatureVars>>

NextEnrich == PrepareEnrichment \/ ListFiles \/ EnrichMonth \/ EnrichDone

SpecEnrich == InitEnrich /\ [][NextEnrich]_vars

---------------------------------------------------------------------------
(* Properties of enrich_trips.py *)

\* The hour nearest to t, an exact half hour going to the even hour
NearestHourHalfEven(t) ==
    LET h == t \div 3600
        s == t % 3600
    IN  IF s < 1800 THEN h
        ELSE IF s > 1800 THEN h + 1
        ELSE IF h % 2 = 0 THEN h ELSE h + 1

\* The hour nearest to t, an exact half hour going up
NearestHourHalfUp(t) ==
    LET h == t \div 3600
        s == t % 3600
    IN  IF s < 1800 THEN h ELSE h + 1

\* The weather a trip carries is that of hour h of the table
LookedUpAt(r, h) ==
    IF \E w \in Range(df_weather) : w.time = h * 3600
    THEN \E w \in Range(df_weather) :
            w.time = h * 3600 /\ w.temperature_c = r.temperature_c
    ELSE r.temperature_c = NaN

MonthProcessed == epc \in {"months", "done"} /\ month > 1

\* C5 (as amended): every trip's start is rounded to the nearest hour before
\* the weather lookup, a start before H:30:00 to H and one after it to H+1;
\* a start at exactly H:30:00 is looked up at the even one of H and H+1
\* (14:30:00 at 14:00, 15:30:00 at 16:00), also across a day boundary.
C5_RoundHalfEven ==
    MonthProcessed =>
        \A r \in Range(df_month) :
            LookedUpAt(r, NearestHourHalfEven(r.started_at))

\* C5 witness: a trip that started at exactly 14:30:00 carries the weather of
\* 14:00 while the table also holds a different observation for 15:00.
C5_Witness ==
    /\ MonthProcessed
    /\ \E r \in Range(df_month) :
            /\ r.started_at = 86400 + 14 * 3600 + 1800
            /\ r.temperature_c = 14
    /\ \E w \in Range(df_weather) :
            w.time = 86400 + 15 * 3600 /\ w.temperature_c = 15

\* C5 (as stated): the lookup hour is the start rounded half up: a start at
\* exactly H:30:00 is looked up at H+1, for even and odd H alike.
C5_RoundHalfUp ==
    MonthProcessed =>
        \A r \in Range(df_month) :
            LookedUpAt(r, NearestHourHalfUp(r.started_at))

UniqueKeys(table, key) ==
    \A a, b \in DOMAIN table : table[a][key] = table[b][key] => a = b

\* C6: when the hours of the weather table and the dates of the solar table
\* are unique, the month's output holds exactly one record per cleaned trip,
\* in order: none dropped, none duplicated; a trip whose hour has no weather
\* row has null weather, and a trip whose date has no solar row has
\* is_day = 0.
C6_OneRecordPerTrip ==
    (MonthProcessed /\ UniqueKeys(df_weather, "time")
                    /\ UniqueKeys(df_sun, "date_key")) =>
        /\ Len(df_month) = Len(df_clean)
        /\ \A k \in DOMAIN df_clean :
            /\ df_month[k].ride_id = df_clean[k].ride_id
            /\ df_month[k].started_at = df_clean[k].started_at
            /\ df_month[k].start_station_id = df_clean[k].start_station_id
            /\ (\A w \in Range(df_weather) :
                    w.time # 3600 * NearestHourHalfEven(df_clean[k].started_at))
                => df_month[k].temperature_c = NaN
            /\ (\A d \in Range(df_sun) :
                    d.date_key # df_clean[k].started_at \div 86400)
                => df_month[k].is_day = 0

\* C6 witness: a month of two trips was enriched against tables with unique
\* keys; one trip's hour has no weather row and its date no solar row, the
\* other has both.
C6_Witness ==
    /\ MonthProcessed
    /\ UniqueKeys(df_weather, "time")
    /\ Len(df_weather) = 2
    /\ Len(df_clean) = 2
    /\ Len(df_month) = 2
    /\ df_clean[1].started_at \div 86400 < YearStart
    /\ \A w \in Range(df_weather) :
            w.time # 3600 * NearestHourHalfEven(df_clean[1].started_at)
    /\ df_month[1].temperature_c = NaN
    /\ df_month[1].is_day = 0
    /\ df_month[2].temperature_c # NaN
    /\ df_month[2].is_day = 1

---------------------------------------------------------------------------
(* create_signatures.py *)

Hours == 0..23

\* Series.dt.hour
dt_hour(t) == (t % 86400) \div 3600

\* subset.groupby(['start_station_id', 'hour']).size()
hourly_counts(subset, station, h) ==
    Cardinality({k \in DOMAIN subset :
                    subset[k].start_station_id = station /\ subset[k].hour = h})

\* pivot(index='start_station_id', columns='hour', values='count').fillna(0),
\* with every missing hour added as a column of 0 and the columns sorted
pivot(subset) ==
    [station \in {subset[k].start_station_id : k \in DOMAIN subset} |->
        [h \in Hours |-> hourly_counts(subset, station, h)]]

RECURSIVE MinOf(_)
MinOf(S) ==
    LET x == CHOOSE y \in S : TRUE
    IN  IF S = {x} THEN x
        ELSE LET m == MinOf(S \ {x}) IN IF x < m THEN x ELSE m
RECURSIVE MaxOf(_)
MaxOf(S) ==
    LET x == CHOOSE y \in S : TRUE
    IN  IF S = {x} THEN x
        ELSE LET m == MaxOf(S \ {x}) IN IF x > m THEN x ELSE m

\* MinMaxScaler().fit_transform(pivot.T).T: each station is one feature,
\* scaled by its own minimum and range over the 24 hours; a range of zero
\* scales by 1.  A value is the fraction <<numerator, denominator>>.
MinMaxScaler(row) ==
    LET data_min == MinOf({row[h] : h \in Hours})
        data_max == MaxOf({row[h] : h \in Hours})
        data_range == IF data_max = data_min THEN 1 ELSE data_max - data_min
    IN  [h \in Hours |-> <<row[h] - data_min, data_range>>]

\* The frame saved for one partition
df_signature(subset) ==
    LET p == pivot(subset)
    IN  [station \in DOMAIN p |-> MinMaxScaler(p[station])]

\* The rows of the enriched files: a trip of station 1, 2 or none, starting
\* at 00:00:05 or 23:59:59, on a weekday or on a weekend
EnrichedTrips ==
    {[start_station_id |-> st, started_at |-> t, is_weekend |-> we]
        : st \in {1, 2, NaN}, t \in {5, 23 * 3600 + 3599}, we \in {0, 1}}

InitSignatures ==
    /\ DatasetIdle
    /\ EnrichIdle
    /\ spc = "load"
    /\ df_all = <<>>
    /\ signatures = <<>>

\* Reading the files, the hour column, dropna(subset=['start_station_id']).
\* pd.concat raises when there is no file to read.
LoadTrips ==
    /\ spc = "load"
    /\ \E nofile \in BOOLEAN :
        IF nofile
        THEN /\ spc' = "crashed"
             /\ UNCHANGED df_all
        ELSE /\ \E trips \in SeqsUpTo(EnrichedTrips, MaxSignatureTrips) :
                df_all' = SelectSeq(
                    [k \in DOMAIN trips |->
                        [start_station_id |-> trips[k].start_station_id,
                         started_at |-> trips[k].started_at,
                         is_weekend |-> trips[k].is_weekend,
                         hour |-> dt_hour(trips[k].started_at)]],
                    LAMBDA r : r.start_station_id # NaN)
             /\ spc' = "weekday"
    /\ UNCHANGED signatures
    /\ UNCHANGED <<datasetVars, enrichVars>>

\* One iteration of the loop over ('weekday', 0), ('weekend', 1).  With no
\* trip in the partition the pivot has no station, and fit_transform raises
\* on an array without features; nothing catches it.
Partition(day_week, flag, after) ==
    /\ spc = day_week
    /\ LET subset == SelectSeq(df_all, LAMBDA r : r.is_weekend = flag)
       IN  IF subset = <<>>
           THEN /\ spc' = "crashed"
                /\ UNCHANGED signatures
           ELSE /\ signatures' = signatures @@ (day_week :> df_signature(subset))
                /\ spc' = after
    /\ UNCHANGED df_all
    /\ UNCHANGED <<datasetVars, enrichVars>>

Weekday == Partition("weekday", 0, "weekend")
Weekend == Partition("weekend", 1, "done")

NextSignatures == LoadTrips \/ Weekday \/ Weekend

SpecSignatures == InitSignatures /\ [][NextSignatures]_vars

---------------------------------------------------------------------------
(* Properties of create_signatures.py *)

PartitionFlag(day_week) == IF day_week = "weekday" THEN 0 ELSE 1

TripsOf(day_week, station, h) ==
    Cardinality({k \in DOMAIN df_all :
        /\ df_all[k].is_weekend = PartitionFlag(day_week)
        /\ df_all[k].start_station_id = station
        /\ df_all[k].started_at % 86400 \in (h * 3600)..(h * 3600 + 3599)})

StationsOf(day_week) ==
    {df_all[k].start_station_id :
        k \in {n \in DOMAIN df_all : df_all[n].is_weekend = PartitionFlag(day_week)}}

\* A fraction is 1.0, or 0.0
IsOne(v) == v[2] # 0 /\ v[1] = v[2]
IsZero(v) == v[2] # 0 /\ v[1] = 0

\* The signature of a station: 24 entries for the hours 0..23, each the
\* station's count of the hour min-max normalized over its own 24 counts
RowIsSignature(day_week, station) ==
    LET row == signatures[day_week][station]
        Least == CHOOSE c \in {TripsOf(day_week, station, h) : h \in Hours} :
                    \A h \in Hours : c <= TripsOf(day_week, station, h)
        Most == CHOOSE c \in {TripsOf(day_week, station, h) : h \in Hours} :
                    \A h \in Hours : c >= TripsOf(day_week, station, h)
    IN  /\ DOMAIN row = Hours
        /\ \A h \in Hours :
            /\ row[h][2] > 0
            /\ Most > Least =>
                row[h][1] * (Most - Least)
                    = (TripsOf(day_week, station, h) - Least) * row[h][2]
            /\ Most = Least => IsZero(row[h])
        /\ \A h \in Hours :
            (\A g \in Hours \ {h} : TripsOf(day_week, station, g) = 0)
                => /\ IsOne(row[h])
                   /\ \A g \in Hours \ {h} : IsZero(row[g])

\* C7: when the generator has ended, each partition's file holds one row per
\* station that has a trip in the partition, and no other; the row has 24
\* entries for the hours 0..23, min-max normalized over its own counts; a
\* station whose trips all start in one hour has 1.0 there and 0.0 elsewhere.
C7_SignaturePerStation ==
    spc \in {"done", "crashed"} =>
        \A day_week \in {"weekday", "weekend"} :
            \A station \in StationsOf(day_week) :
                /\ day_week \in DOMAIN signatures
                /\ DOMAIN signatures[day_week] = StationsOf(day_week)
                /\ RowIsSignature(day_week, station)

\* The rows that are written are signatures: every file written holds one row
\* per station of its partition, each as C7 describes it.
WrittenRowsAreSignatures ==
    \A day_week \in DOMAIN signatures :
        /\ DOMAIN signatures[day_week] = StationsOf(day_week)
        /\ \A station \in DOMAIN signatures[day_week] :
                RowIsSignature(day_week, station)

===========================================================================
